---- MODULE Spec2Model ----
(***************************************************************************)
(* Model of word-list-grabber: the two one-shot pipelines main.py (word    *)
(* list) and sentences.py (sentence list).  Each pipeline queries the      *)
(* AnkiConnect API (modelTemplates, findNotes, notesInfo), filters the     *)
(* notes by model name, transforms them and writes a text file.            *)
(*                                                                         *)
(* Text that is sorted, concatenated or written to a file is modelled as   *)
(* a sequence of Unicode code points, so that Python's string order and    *)
(* string concatenation are computed, not assumed.  Names that are only    *)
(* compared for equality (actions, model and template names, exception     *)
(* classes, log messages) are TLA+ strings.                                *)
(***************************************************************************)
EXTENDS Integers, Sequences, FiniteSets, TLC

VARIABLES
    pipeline,             \* "words" (main.py) or "sentences" (sentences.py)
    pc,                   \* position of the single thread of control
    requests,             \* JSON bodies posted to AnkiConnect, in order
    last,                 \* the latest invoke(): its cause and its outcome
    template_names,       \* get_words: list(templates_dict.keys())
    word_template_ord,    \* get_words: template_names.index(...), -1 before
    note_ids,             \* get_words: result of find_notes("Polish")
    words,                \* __main__: value returned by get_words()
    tag_dict,             \* main.py process_and_store: tag -> sorted words
    processed_sentences,  \* sentences.py process_and_store: lines to write
    file,                 \* words.txt / sentences.txt
    log                   \* WARNING and ERROR records, in order

vars == <<pipeline, pc, requests, last, template_names, word_template_ord,
          note_ids, words, tag_dict, processed_sentences, file, log>>

(***************************************************************************)
(* Bounds of the model.                                                    *)
(***************************************************************************)
\* Largest number of notes the deck holds (ids returned by findNotes).
MaxNotes == 2

(***************************************************************************)
(* Text as code points.                                                    *)
(***************************************************************************)
STR_a == <<97>>
STR_ab == <<97, 98>>
STR_b == <<98>>
STR_y == <<121>>
STR_z == <<122>>
STR_empty == <<>>
TAG_all == <<97, 108, 108>>
TAG_no_tag == <<110, 111, 45, 116, 97, 103>>
TAG_noun == <<110, 111, 117, 110>>
TAG_verb == <<118, 101, 114, 98>>
\* ":\n", ", ", "\n\n" and "\n" as written by the two writers.
COLON_NL == <<58, 10>>
COMMA_SPACE == <<44, 32>>
NL_NL == <<10, 10>>
NL == <<10>>
\* Content of an output file left by an earlier run: "old\n".
OldContent == <<111, 108, 100, 10>>

Range(s) == {s[i] : i \in 1..Len(s)}

\* Python str.__lt__: code point by code point, a proper prefix is smaller.
RECURSIVE StrLess(_, _)
StrLess(s, t) ==
    IF t = <<>> THEN FALSE
    ELSE IF s = <<>> THEN TRUE
    ELSE IF Head(s) # Head(t) THEN Head(s) < Head(t)
    ELSE StrLess(Tail(s), Tail(t))

\* sorted(): a stable ascending sort; insertion keeps equal elements in order.
RECURSIVE InsertSorted(_, _)
InsertSorted(x, s) ==
    IF s = <<>> THEN <<x>>
    ELSE IF StrLess(x, Head(s)) THEN <<x>> \o s
    ELSE <<Head(s)>> \o InsertSorted(x, Tail(s))

RECURSIVE SortedReversedFrom(_, _)
SortedReversedFrom(s, acc) ==
    IF s = <<>> THEN acc
    ELSE SortedReversedFrom(Tail(s), <<Head(s)>> \o acc)

\* Mutant of Sorted: the list is returned in reverse input order, unsorted.
SortedUnsorted(s) == SortedReversedFrom(s, <<>>)

RECURSIVE SortedFrom(_, _)
SortedFrom(s, acc) ==
    IF s = <<>> THEN acc
    ELSE SortedFrom(Tail(s), InsertSorted(Head(s), acc))

Sorted(s) == SortedFrom(s, <<>>)

(***************************************************************************)
(* Fixed configuration of the two pipelines.                               *)
(***************************************************************************)
Pipelines == {"words", "sentences"}
ModelName(p) == IF p = "words" THEN "Words" ELSE "Custom Cloze"
TemplateName(p) == IF p = "words" THEN "Word" ELSE "Fill Blank"
DeckQuery == "deck:\"Polish\""

(***************************************************************************)
(* invoke(): one POST to AnkiConnect and the unwrapping of its envelope.   *)
(***************************************************************************)
\* What the requests library raises inside the try block ("none": nothing).
\* ValueError is what response.json() raises on a body that is not JSON in
\* releases of requests where JSONDecodeError is not a RequestException.
LibraryExceptions ==
    {"none", "requests.ConnectionError", "requests.ConnectTimeout",
     "requests.ReadTimeout", "requests.HTTPError",
     "requests.JSONDecodeError", "ValueError"}

\* The class hierarchy the except clauses dispatch on.
Superclasses(c) ==
    CASE c = "requests.ConnectionError" ->
            {c, "requests.RequestException", "Exception"}
      [] c = "requests.ConnectTimeout" ->
            {c, "requests.ConnectionError", "requests.Timeout",
             "requests.RequestException", "Exception"}
      [] c = "requests.ReadTimeout" ->
            {c, "requests.Timeout", "requests.RequestException", "Exception"}
      [] c = "requests.HTTPError" ->
            {c, "requests.RequestException", "Exception"}
      [] c = "requests.JSONDecodeError" ->
            {c, "requests.RequestException", "ValueError", "Exception"}
      [] c = "ConnectionError" -> {c, "OSError", "Exception"}
      [] c = "RuntimeError" -> {c, "Exception"}
      [] c = "ValueError" -> {c, "Exception"}
      [] c = "KeyError" -> {c, "LookupError", "Exception"}
      [] OTHER -> {c}

IsInstance(c, class) == class \in Superclasses(c)

Return(v) == [kind |-> "return", exc |-> "", msg |-> "", detail |-> "", value |-> v]
Raise(c, m, d) == [kind |-> "raise", exc |-> c, msg |-> m, detail |-> d, value |-> <<>>]

\* result.get("error"): the value is truthy iff it is a non-empty string.
ErrorTruthy(response) == response.errorKind = "string" /\ response.error # ""

\* Mutant of InvokeBody: any error key that is present counts as an error.
InvokeBodyErrorKeyPresent(exc, response) ==
    IF exc # "none" THEN Raise(exc, "", "")
    ELSE IF response.errorKind # "absent"
         THEN Raise("RuntimeError", "AnkiConnect error", response.error)
    ELSE IF ~response.hasResult THEN Raise("KeyError", "result", "")
    ELSE Return(response.result)

\* The try block of invoke (lines 28-42).
InvokeBody(exc, response) ==
    IF exc # "none" THEN Raise(exc, "", "")
    ELSE IF ErrorTruthy(response)
         THEN Raise("RuntimeError", "AnkiConnect error", response.error)
    ELSE IF ~response.hasResult THEN Raise("KeyError", "result", "")
    ELSE Return(response.result)

\* Mutant of Invoke: the RequestException clause comes first.
InvokeRequestExceptionFirst(exc, response) ==
    LET body == InvokeBody(exc, response) IN
    IF body.kind = "raise" /\ IsInstance(body.exc, "requests.RequestException")
    THEN Raise("RuntimeError", "Request failed", body.exc)
    ELSE body

\* invoke: the try block, then the two except clauses in source order.
Invoke(exc, response) ==
    LET body == InvokeBody(exc, response) IN
    IF body.kind = "raise" /\ IsInstance(body.exc, "requests.ConnectionError")
    THEN Raise("ConnectionError", "Could not connect to AnkiConnect", "")
    ELSE IF body.kind = "raise" /\ IsInstance(body.exc, "requests.RequestException")
    THEN Raise("RuntimeError", "Request failed", body.exc)
    ELSE body

\* logger.error records of invoke (lines 38, 44, 47).
InvokeLog(exc, response) ==
    LET body == InvokeBody(exc, response) IN
    IF body.kind = "return" THEN <<>>
    ELSE IF body.msg = "AnkiConnect error" THEN <<"AnkiConnect action failed">>
    ELSE IF IsInstance(body.exc, "requests.ConnectionError")
    THEN <<"Failed to connect to AnkiConnect">>
    ELSE IF IsInstance(body.exc, "requests.RequestException")
    THEN <<"Request to AnkiConnect failed">>
    ELSE <<>>

(***************************************************************************)
(* The environment: what AnkiConnect may answer.                           *)
(***************************************************************************)
\* A response body: the error key (absent, null or a string) and the
\* result key (absent or a payload).
Response(kind, err, has, payload) ==
    [errorKind |-> kind, error |-> err, hasResult |-> has, result |-> payload]

NoBody == Response("absent", "", FALSE, <<>>)

\* Envelopes around a payload that carry no error: key absent, null, "".
Success(payloads) ==
    {Response(k, "", TRUE, v) : k \in {"absent", "null", "string"}, v \in payloads}

\* Envelopes of a failed action, and an envelope without a result key.
Failure ==
    {Response("string", "collection is not available", h, <<>>) : h \in BOOLEAN}
        \cup {NoBody}

\* modelTemplates: template names in the model's order.
TemplateLists(p) ==
    {<<>>, <<TemplateName(p)>>, <<"Reverse">>, <<"Reverse", TemplateName(p)>>}

\* findNotes: at most MaxNotes distinct ids, ascending.
IdLists ==
    {s \in UNION {[1..n -> 1..MaxNotes] : n \in 0..MaxNotes} :
        \A i \in 1..Len(s) : \A j \in 1..Len(s) : i < j => s[i] < s[j]}

Note(hasModel, model, fields, tags) ==
    [hasModelName |-> hasModel, modelName |-> model, fields |-> fields, tags |-> tags]

\* Tag lists of the notes of the Words model: no tag, one tag, two tags in
\* either order, a tag twice, and tags named like the two fixed buckets.
TagLists ==
    {<<>>, <<TAG_noun>>, <<TAG_noun, TAG_verb>>, <<TAG_verb, TAG_noun>>,
     <<TAG_noun, TAG_noun>>, <<TAG_all>>, <<TAG_no_tag>>}

WordNotes ==
    {Note(TRUE, "Words", [Word |-> w], t) : w \in {STR_a, STR_ab, STR_b}, t \in TagLists}
        \cup {Note(TRUE, "Other", [Word |-> STR_z], <<>>),
              Note(TRUE, "words", [Word |-> STR_y], <<TAG_noun>>),
              Note(FALSE, "", [Word |-> STR_a], <<>>)}

Cloze(before, cloze, between, second, after) ==
    [WordsBefore |-> before, ClozeWord |-> cloze, WordsBetween |-> between,
     ClozeWordSecondPart |-> second, WordsAfter |-> after]

SentenceNotes ==
    {Note(TRUE, "Custom Cloze", Cloze(f1, f2, f3, f4, f5), <<>>) :
        f1 \in {STR_a, STR_b}, f2 \in {STR_empty, STR_a}, f3 \in {STR_empty, STR_b},
        f4 \in {STR_empty, STR_a}, f5 \in {STR_empty}}
        \cup {Note(TRUE, "Custom Cloze", Cloze(STR_a, STR_empty, STR_empty, STR_empty, STR_b), <<>>),
              Note(TRUE, "Custom Cloze", Cloze(STR_b, STR_a, STR_empty, STR_empty, STR_ab), <<>>)}
        \cup {Note(TRUE, "Cloze", Cloze(STR_z, STR_a, STR_empty, STR_empty, STR_b), <<>>),
              Note(TRUE, "custom cloze", Cloze(STR_y, STR_empty, STR_empty, STR_empty, STR_empty), <<>>),
              Note(FALSE, "", Cloze(STR_a, STR_empty, STR_empty, STR_empty, STR_empty), <<>>)}

DeckNotes(p) == IF p = "words" THEN WordNotes ELSE SentenceNotes

\* notesInfo: one note record per requested id.
NoteLists(p, ids) == [1..Len(ids) -> DeckNotes(p)]

\* A cause of an invoke outcome: the library raised, or a body arrived.
Causes(payloads) ==
    {[exc |-> e, response |-> NoBody] : e \in LibraryExceptions \ {"none"}}
        \cup {[exc |-> "none", response |-> r] : r \in Success(payloads) \cup Failure}

(***************************************************************************)
(* get_words / get_sentences: the fetch phase.                             *)
(***************************************************************************)
None == [isNone |-> TRUE, notes |-> <<>>]
Some(notes) == [isNone |-> FALSE, notes |-> notes]

Request(action, params) == [action |-> action, version |-> 6, params |-> params]

Call(action, cause) ==
    [action |-> action, exc |-> cause.exc, response |-> cause.response,
     outcome |-> Invoke(cause.exc, cause.response)]

\* Mutant of Catches: the handler names RuntimeError only.
CatchesRuntimeErrorOnly(exc) == IsInstance(exc, "RuntimeError")

\* except Exception (line 109).
Catches(exc) == IsInstance(exc, "Exception")

\* "Word" in template_names (line 81).
TemplatePresent(names, p) == TemplateName(p) \in Range(names)

\* template_names.index(...) (line 85), zero-based.
Index(names, name) == (CHOOSE i \in 1..Len(names) : names[i] = name /\ \A j \in 1..(i - 1) : names[j] # name) - 1

\* Mutant of NoNoteIds: the emptiness test is dropped.
NoNoteIdsNever(ids) == FALSE

\* not note_ids (line 91).
NoNoteIds(ids) == ids = <<>>

\* Mutant of FetchResult: the empty list is returned instead of None.
FetchResultEmptyList(notes) == Some(notes)

\* Lines 101-107: None when no note survives the filter, else the notes.
FetchResult(notes) == IF notes = <<>> THEN None ELSE Some(notes)

\* Mutant of NotesInfoParams: the first id is dropped.
NotesInfoParamsTail(ids) == [notes |-> Tail(ids)]

\* {"notes": note_ids} (line 58).
NotesInfoParams(ids) == [notes |-> ids]

\* Mutant of ModelMatches: the comparison ignores the name.
ModelMatchesAny(note, p) == TRUE

\* note["modelName"] == "Words" (line 100).
ModelMatches(note, p) == note.modelName = ModelName(p)

\* The list comprehension of line 100.
FilterNotes(notes, p) == SelectSeq(notes, LAMBDA n : ModelMatches(n, p))

\* note["modelName"] raises KeyError on a record without that key.
FilterRaises(notes) == \E i \in 1..Len(notes) : ~notes[i].hasModelName

\* The except clause of get_words: log the error, return None; an exception
\* the clause does not catch ends the process.
Handle(exc) ==
    /\ pc' = IF Catches(exc) THEN "main" ELSE "crashed"
    /\ words' = None

HandleLog(exc) ==
    IF Catches(exc) THEN <<"Error during audio enablement process">> ELSE <<>>

GetModelTemplates ==
    /\ pc = "templates"
    /\ \E cause \in Causes(TemplateLists(pipeline)) :
        LET call == Call("modelTemplates", cause)
            out == call.outcome
        IN  /\ requests' = Append(requests,
                    Request("modelTemplates", [modelName |-> ModelName(pipeline)]))
            /\ last' = call
            /\ IF out.kind = "raise"
               THEN /\ Handle(out.exc)
                    /\ log' = log \o InvokeLog(cause.exc, cause.response) \o HandleLog(out.exc)
                    /\ UNCHANGED <<template_names, word_template_ord>>
               ELSE IF ~TemplatePresent(out.value, pipeline)
               THEN /\ template_names' = out.value
                    /\ log' = Append(log, "template not found")
                    /\ words' = None
                    /\ pc' = "main"
                    /\ UNCHANGED word_template_ord
               ELSE /\ template_names' = out.value
                    /\ word_template_ord' = Index(out.value, TemplateName(pipeline))
                    /\ pc' = "find"
                    /\ UNCHANGED <<words, log>>
    /\ UNCHANGED <<pipeline, note_ids, tag_dict, processed_sentences, file>>

FindNotes ==
    /\ pc = "find"
    /\ \E cause \in Causes(IdLists) :
        LET call == Call("findNotes", cause)
            out == call.outcome
        IN  /\ requests' = Append(requests, Request("findNotes", [query |-> DeckQuery]))
            /\ last' = call
            /\ IF out.kind = "raise"
               THEN /\ Handle(out.exc)
                    /\ log' = log \o InvokeLog(cause.exc, cause.response) \o HandleLog(out.exc)
                    /\ UNCHANGED note_ids
               ELSE IF NoNoteIds(out.value)
               THEN /\ note_ids' = out.value
                    /\ log' = Append(log, "No notes found in Polish deck")
                    /\ words' = None
                    /\ pc' = "main"
               ELSE /\ note_ids' = out.value
                    /\ pc' = "info"
                    /\ UNCHANGED <<words, log>>
    /\ UNCHANGED <<pipeline, template_names, word_template_ord, tag_dict,
                   processed_sentences, file>>

GetNoteInfo ==
    /\ pc = "info"
    /\ \E cause \in Causes(NoteLists(pipeline, note_ids)) :
        LET call == Call("notesInfo", cause)
            out == call.outcome
        IN  /\ requests' = Append(requests, Request("notesInfo", NotesInfoParams(note_ids)))
            /\ last' = call
            /\ IF out.kind = "raise"
               THEN /\ Handle(out.exc)
                    /\ log' = log \o InvokeLog(cause.exc, cause.response) \o HandleLog(out.exc)
               ELSE IF FilterRaises(out.value)
               THEN /\ Handle("KeyError")
                    /\ log' = log \o HandleLog("KeyError")
               ELSE /\ words' = FetchResult(FilterNotes(out.value, pipeline))
                    /\ pc' = "main"
                    /\ log' = IF FilterNotes(out.value, pipeline) = <<>>
                              THEN Append(log, "No notes found with model")
                              ELSE log
    /\ UNCHANGED <<pipeline, template_names, word_template_ord, note_ids, tag_dict,
                   processed_sentences, file>>

(***************************************************************************)
(* main.py process_and_store: group by tag, sort, write words.txt.         *)
(***************************************************************************)
\* An insertion-ordered dict: its keys in insertion order and its values.
Dict(keys, vals) == [keys |-> keys, vals |-> vals]

\* {"all": [], "no-tag": []} (line 114).
InitialTagDict == Dict(<<TAG_all, TAG_no_tag>>, [k \in {TAG_all, TAG_no_tag} |-> <<>>])

\* if tag not in tag_dict: tag_dict[tag] = []; tag_dict[tag].append(word)
DictAppend(d, k, w) ==
    IF k \in Range(d.keys)
    THEN Dict(d.keys, [d.vals EXCEPT ![k] = Append(@, w)])
    ELSE Dict(Append(d.keys, k),
              [x \in DOMAIN d.vals \cup {k} |-> IF x = k THEN <<w>> ELSE d.vals[x]])

\* for tag in word["tags"] (lines 121-124).
RECURSIVE AddTags(_, _, _)
AddTags(d, tags, w) ==
    IF tags = <<>> THEN d
    ELSE AddTags(DictAppend(d, Head(tags), w), Tail(tags), w)

\* One iteration of the loop over the notes (lines 116-124).
AddWord(d, note) ==
    LET w == note.fields.Word
        d1 == DictAppend(d, TAG_all, w)
    IN  IF note.tags = <<>> THEN DictAppend(d1, TAG_no_tag, w)
        ELSE AddTags(d1, note.tags, w)

RECURSIVE GroupByTag(_, _)
GroupByTag(d, notes) ==
    IF notes = <<>> THEN d
    ELSE GroupByTag(AddWord(d, Head(notes)), Tail(notes))

\* {tag: sorted(words) for tag, words in tag_dict.items()} (line 127).
SortBuckets(d) == Dict(d.keys, [k \in DOMAIN d.vals |-> Sorted(d.vals[k])])

\* The inner loop of the writer: ", " before every word but the first.
RECURSIVE WriteWordsOf(_, _)
WriteWordsOf(ws, first) ==
    IF ws = <<>> THEN <<>>
    ELSE (IF first THEN <<>> ELSE COMMA_SPACE) \o Head(ws) \o WriteWordsOf(Tail(ws), FALSE)

\* Mutant of WriteBlock: the separator follows every word.
WriteBlockTrailingSeparator(tag, ws) ==
    tag \o COLON_NL \o WriteWordsOf(ws, TRUE)
        \o (IF ws = <<>> THEN <<>> ELSE COMMA_SPACE) \o NL_NL

\* One block (lines 132-140).
WriteBlock(tag, ws) == tag \o COLON_NL \o WriteWordsOf(ws, TRUE) \o NL_NL

\* The loop over tag_dict.items(), in insertion order.
RECURSIVE WriteBlocks(_, _)
WriteBlocks(d, i) ==
    IF i > Len(d.keys) THEN <<>>
    ELSE WriteBlock(d.keys[i], d.vals[d.keys[i]]) \o WriteBlocks(d, i + 1)

\* open(path, "w"): the file is created or truncated, then written.
WriteFile(f, text) == [exists |-> TRUE, content |-> text]

(***************************************************************************)
(* sentences.py process_and_store: concatenate, sort, dedupe, write.       *)
(***************************************************************************)
\* Mutant of Concatenate: the two cloze parts are swapped.
ConcatenateSwapped(note) ==
    note.fields.WordsBefore \o note.fields.ClozeWordSecondPart
        \o note.fields.WordsBetween \o note.fields.ClozeWord \o note.fields.WordsAfter

\* Lines 115-119.
Concatenate(note) ==
    note.fields.WordsBefore \o note.fields.ClozeWord \o note.fields.WordsBetween
        \o note.fields.ClozeWordSecondPart \o note.fields.WordsAfter

ConcatenateAll(notes) == [i \in 1..Len(notes) |-> Concatenate(notes[i])]

RECURSIVE DictFromKeysFrom(_, _)
DictFromKeysFrom(s, acc) ==
    IF s = <<>> THEN acc
    ELSE DictFromKeysFrom(Tail(s),
             IF Head(s) \in Range(acc) THEN acc ELSE Append(acc, Head(s)))

\* Mutant of DictFromKeys: duplicates are kept.
DictFromKeysKeepAll(s) == s

\* list(dict.fromkeys(...)) (line 126): the first occurrence of each key.
DictFromKeys(s) == DictFromKeysFrom(s, <<>>)

\* The writer loop (lines 130-131).
RECURSIVE WriteLines(_)
WriteLines(s) ==
    IF s = <<>> THEN <<>> ELSE Head(s) \o NL \o WriteLines(Tail(s))

(***************************************************************************)
(* __main__ and the specification.                                         *)
(***************************************************************************)
InitialFiles == {[exists |-> FALSE, content |-> <<>>], [exists |-> TRUE, content |-> OldContent]}

Init ==
    /\ pipeline \in Pipelines
    /\ pc = "templates"
    /\ requests = <<>>
    /\ last = [action |-> "", exc |-> "none", response |-> NoBody, outcome |-> Return(<<>>)]
    /\ template_names = <<>>
    /\ word_template_ord = -1
    /\ note_ids = <<>>
    /\ words = None
    /\ tag_dict = Dict(<<>>, <<>>)
    /\ processed_sentences = <<>>
    /\ file \in InitialFiles
    /\ log = <<>>

\* not words (line 157): None and the empty list are both falsy.
NotWords(w) == w.isNone \/ w.notes = <<>>

\* Lines 157-159: exit(0) without writing when nothing was fetched.
MainCheck ==
    /\ pc = "main"
    /\ IF NotWords(words)
       THEN /\ pc' = "exit0"
            /\ log' = Append(log, "Nothing was retrieved from Anki.")
       ELSE /\ pc' = "store"
            /\ UNCHANGED log
    /\ UNCHANGED <<pipeline, requests, last, template_names, word_template_ord,
                   note_ids, words, tag_dict, processed_sentences, file>>

\* main.py line 161.
ProcessAndStoreWords ==
    /\ pc = "store"
    /\ pipeline = "words"
    /\ tag_dict' = SortBuckets(GroupByTag(InitialTagDict, words.notes))
    /\ file' = WriteFile(file, WriteBlocks(tag_dict', 1))
    /\ pc' = "done"
    /\ UNCHANGED <<pipeline, requests, last, template_names, word_template_ord,
                   note_ids, words, processed_sentences, log>>

\* sentences.py line 152.
ProcessAndStoreSentences ==
    /\ pc = "store"
    /\ pipeline = "sentences"
    /\ processed_sentences' = DictFromKeys(Sorted(ConcatenateAll(words.notes)))
    /\ file' = WriteFile(file, WriteLines(processed_sentences'))
    /\ pc' = "done"
    /\ UNCHANGED <<pipeline, requests, last, template_names, word_template_ord,
                   note_ids, words, tag_dict, log>>

Next ==
    \/ GetModelTemplates
    \/ FindNotes
    \/ GetNoteInfo
    \/ MainCheck
    \/ ProcessAndStoreWords
    \/ ProcessAndStoreSentences

Spec == Init /\ [][Next]_vars

(***************************************************************************)
(* Properties.                                                             *)
(***************************************************************************)
FixedSequence == <<"modelTemplates", "findNotes", "notesInfo">>

Returned(action) == last.action = action /\ last.outcome.kind = "return"

\* A step that posts a request posts exactly the next one of the fixed
\* sequence, after an invoke that returned.
IssuesNextRequest ==
    requests' # requests =>
        /\ Len(requests) < Len(FixedSequence)
        /\ Len(requests') = Len(requests) + 1
        /\ \A i \in 1..Len(requests) : requests'[i] = requests[i]
        /\ last.outcome.kind = "return"
        /\ LET new == requests'[Len(requests')] IN
            /\ new.action = FixedSequence[Len(requests')]
            /\ new.action = "findNotes" =>
                /\ Returned("modelTemplates")
                /\ TemplateName(pipeline) \in Range(last.outcome.value)
            /\ new.action = "notesInfo" =>
                /\ Returned("findNotes")
                /\ last.outcome.value # <<>>
                /\ new.params.notes = last.outcome.value

\* C1: the requests of a run are a prefix of modelTemplates, findNotes,
\* notesInfo, none is issued twice or after a failed one; findNotes follows
\* a template list that holds the required template, and notesInfo follows
\* a non-empty id list and carries exactly that list.
C1_RequestSequence ==
    /\ [](/\ Len(requests) <= Len(FixedSequence)
          /\ \A i \in 1..Len(requests) : requests[i].action = FixedSequence[i])
    /\ [][IssuesNextRequest]_vars

C1_Witness ==
    /\ Len(requests) = 3
    /\ Len(note_ids) = 2
    /\ requests[3].params.notes = note_ids
    /\ pc = "done"

\* One of the three no-qualifying-data conditions holds of the latest answer.
NoQualifyingData ==
    \/ Returned("modelTemplates") /\ TemplateName(pipeline) \notin Range(last.outcome.value)
    \/ Returned("findNotes") /\ last.outcome.value = <<>>
    \/ /\ Returned("notesInfo")
       /\ \A i \in 1..Len(last.outcome.value) :
            /\ last.outcome.value[i].hasModelName
            /\ last.outcome.value[i].modelName # ModelName(pipeline)

\* C2: when the template is absent, the deck is empty or no note has the
\* expected model, the fetch phase returns None without raising, the write
\* step does not run and the output file stays as it was.
C2_NoDataNoWrite ==
    /\ [](NoQualifyingData =>
            /\ words.isNone
            /\ pc \in {"main", "exit0"}
            /\ file \in InitialFiles
            /\ "Error during audio enablement process" \notin Range(log))
    /\ [][NoQualifyingData' => file' = file]_vars
    /\ [][NoQualifyingData /\ pc = "main" => pc' = "exit0"]_vars

C2_Witness ==
    /\ pc = "exit0"
    /\ Returned("notesInfo")
    /\ Len(last.outcome.value) = 2
    /\ NoQualifyingData
    /\ file.exists

IsAscending(s) == \A i \in 1..(Len(s) - 1) : ~StrLess(s[i + 1], s[i])
IsStrictlyAscending(s) == \A i \in 1..(Len(s) - 1) : StrLess(s[i], s[i + 1])

WordsDone == pc = "done" /\ pipeline = "words"
SentencesDone == pc = "done" /\ pipeline = "sentences"
Buckets == Range(tag_dict.keys)

\* C3: the mapping has a bucket "all" with the word of every note, a bucket
\* "no-tag" with the word of every note without tags, for every tag of a
\* note a bucket with that note's word, and every bucket is ascending.
C3_Grouping ==
    WordsDone =>
        /\ {TAG_all, TAG_no_tag} \subseteq Buckets
        /\ DOMAIN tag_dict.vals = Buckets
        /\ \A i \in 1..Len(words.notes) :
            LET n == words.notes[i] IN
            /\ n.fields.Word \in Range(tag_dict.vals[TAG_all])
            /\ n.tags = <<>> => n.fields.Word \in Range(tag_dict.vals[TAG_no_tag])
            /\ \A t \in Range(n.tags) :
                t \in Buckets /\ n.fields.Word \in Range(tag_dict.vals[t])
        /\ \A t \in Buckets : IsAscending(tag_dict.vals[t])

\* Words b (no tags) and a (tag noun): all = [a, b], no-tag = [b], noun = [a].
C3_Witness ==
    /\ WordsDone
    /\ Len(words.notes) = 2
    /\ words.notes[1].fields.Word = STR_b /\ words.notes[1].tags = <<>>
    /\ words.notes[2].fields.Word = STR_a /\ words.notes[2].tags = <<TAG_noun>>
    /\ tag_dict.vals[TAG_all] = <<STR_a, STR_b>>
    /\ tag_dict.vals[TAG_no_tag] = <<STR_b>>
    /\ tag_dict.vals[TAG_noun] = <<STR_a>>

\* The five fields of a note, joined in the order of the specification.
Sentence(n) ==
    n.fields.WordsBefore \o n.fields.ClozeWord \o n.fields.WordsBetween
        \o n.fields.ClozeWordSecondPart \o n.fields.WordsAfter

RECURSIVE Flatten(_)
Flatten(ss) == IF ss = <<>> THEN <<>> ELSE Head(ss) \o Flatten(Tail(ss))

ConnectionFailures == {"requests.ConnectionError", "requests.ConnectTimeout"}
OtherTransportErrors == {"requests.ReadTimeout", "requests.HTTPError"}

\* C5: a connection failure yields ConnectionError, another transport error
\* yields RuntimeError "Request failed", a response with a non-empty error
\* yields RuntimeError "AnkiConnect error" and no value; ConnectionError has
\* no other cause and is a different class from the other two.
C5_FailureClasses ==
    last.action # "" =>
        /\ last.exc \in ConnectionFailures =>
            last.outcome.kind = "raise" /\ last.outcome.exc = "ConnectionError"
        /\ last.exc \in OtherTransportErrors =>
            /\ last.outcome.kind = "raise"
            /\ last.outcome.exc = "RuntimeError"
            /\ last.outcome.msg = "Request failed"
        /\ (last.exc = "none" /\ last.response.errorKind = "string"
                /\ last.response.error # "") =>
            /\ last.outcome.kind = "raise"
            /\ last.outcome.exc = "RuntimeError"
            /\ last.outcome.msg = "AnkiConnect error"
            /\ last.outcome.detail = last.response.error
            /\ last.outcome.value = <<>>
        /\ (last.outcome.kind = "raise" /\ last.outcome.exc = "ConnectionError") =>
            last.exc \in ConnectionFailures

C5_Witness ==
    /\ last.action = "findNotes"
    /\ last.exc = "requests.ConnectTimeout"
    /\ last.outcome.exc = "ConnectionError"

ExceptionRaised ==
    /\ last.action # ""
    /\ \/ last.outcome.kind = "raise"
       \/ /\ Returned("notesInfo")
          /\ \E i \in 1..Len(last.outcome.value) : ~last.outcome.value[i].hasModelName

\* C7: no exception of the fetch phase leaves get_words / get_sentences: the
\* phase yields None, the top level takes the no-data path and exits
\* without writing.
C7_ExceptionsSwallowed ==
    /\ [](pc # "crashed")
    /\ [](ExceptionRaised => words.isNone /\ pc \in {"main", "exit0"})
    /\ [][ExceptionRaised' => file' = file]_vars
    /\ [][ExceptionRaised /\ pc = "main" => pc' = "exit0"]_vars

C7_Witness ==
    /\ pc = "exit0"
    /\ Returned("notesInfo")
    /\ ExceptionRaised
    /\ file \in InitialFiles

\* Notes of the latest notesInfo answer whose model is the expected one.
Qualifying ==
    {n \in Range(last.outcome.value) : n.hasModelName /\ n.modelName = ModelName(pipeline)}

FirstNote(t) ==
    CHOOSE i \in 1..Len(words.notes) :
        /\ t \in Range(words.notes[i].tags)
        /\ \A j \in 1..(i - 1) : t \notin Range(words.notes[j].tags)

FirstIndex(t) ==
    CHOOSE i \in 1..Len(words.notes[FirstNote(t)].tags) :
        /\ words.notes[FirstNote(t)].tags[i] = t
        /\ \A j \in 1..(i - 1) : words.notes[FirstNote(t)].tags[j] # t

SeenBefore(t, u) ==
    \/ FirstNote(t) < FirstNote(u)
    \/ FirstNote(t) = FirstNote(u) /\ FirstIndex(t) < FirstIndex(u)

RECURSIVE Join(_, _)
Join(ws, sep) ==
    IF ws = <<>> THEN <<>>
    ELSE IF Len(ws) = 1 THEN Head(ws)
    ELSE Head(ws) \o sep \o Join(Tail(ws), sep)

Block(t) == t \o <<58, 10>> \o Join(tag_dict.vals[t], <<44, 32>>) \o <<10, 10>>

\* C9: words.txt is replaced by one block per bucket, "all" first, then
\* "no-tag", then the other tags in first-seen order; a block is the tag,
\* ":\n", the words joined by ", ", and "\n\n".
C9_WordFile ==
    WordsDone =>
        LET keys == tag_dict.keys
            others == UNION {Range(words.notes[i].tags) : i \in 1..Len(words.notes)}
                          \ {TAG_all, TAG_no_tag}
        IN  /\ Len(keys) = 2 + Cardinality(others)
            /\ keys[1] = TAG_all
            /\ keys[2] = TAG_no_tag
            /\ {keys[i] : i \in 3..Len(keys)} = others
            /\ \A i \in 3..Len(keys) : \A j \in 3..Len(keys) :
                i < j => SeenBefore(keys[i], keys[j])
            /\ file.exists
            /\ file.content = Flatten([i \in 1..Len(keys) |-> Block(keys[i])])

\* Tags verb, noun (first note) and noun (second): all, no-tag, verb, noun.
C9_Witness ==
    /\ WordsDone
    /\ tag_dict.keys = <<TAG_all, TAG_no_tag, TAG_verb, TAG_noun>>
    /\ tag_dict.vals[TAG_noun] = <<STR_a, STR_b>>
    /\ tag_dict.vals[TAG_no_tag] = <<>>
    /\ file.content =
        TAG_all \o <<58, 10, 97, 44, 32, 98, 10, 10>>
            \o TAG_no_tag \o <<58, 10, 10, 10>>
            \o TAG_verb \o <<58, 10, 98, 10, 10>>
            \o TAG_noun \o <<58, 10, 97, 44, 32, 98, 10, 10>>

Carrying(t) == {i \in 1..Len(words.notes) : t \in Range(words.notes[i].tags)}

\* C10: whatever the tag names, "all" has one entry per note, "no-tag" has
\* only words of notes without tags, and every other bucket has one entry
\* per note carrying its tag.
C10_ExactBuckets ==
    WordsDone =>
        /\ Len(tag_dict.vals[TAG_all]) = Len(words.notes)
        /\ \A w \in Range(tag_dict.vals[TAG_no_tag]) :
            \E i \in 1..Len(words.notes) :
                words.notes[i].tags = <<>> /\ words.notes[i].fields.Word = w
        /\ \A t \in Buckets \ {TAG_all, TAG_no_tag} :
            Len(tag_dict.vals[t]) = Cardinality(Carrying(t))

====
